---- MODULE Spec2Model ----
(***************************************************************************)
(* Model of the tomlpp conversion layer (CTomlPlusPlus.hpp / .cpp):        *)
(*   - the tagged value model Node, its factories and accessors;           *)
(*   - convertNode / convertTable / convertArray over the native tree of   *)
(*     the grammar engine (toml++);                                        *)
(*   - the entry point parse and its ParseResult.                          *)
(*                                                                         *)
(* Two specifications:                                                     *)
(*   Spec       a caller builds a Node with a factory and calls accessors; *)
(*   SpecParse  parse is applied to one outcome of the grammar engine.     *)
(***************************************************************************)
EXTENDS Integers, Sequences, FiniteSets, TLC

VARIABLES
    node,      \* Spec: the Node under inspection
    made,      \* Spec: the factory call that built it, [factory, ...arguments]
    op,        \* Spec: the last accessor call, [name, arg]
    ret,       \* Spec: what that call did, [completed, oob, value]
    engine,    \* SpecParse: what toml::parse does on the input text
    pc,        \* SpecParse: "start" before parse is called, "returned" after
    result     \* SpecParse: the ParseResult of parse

vars == <<node, made, op, ret, engine, pc, result>>

(***************************************************************************)
(* Bounds of the model.                                                    *)
(***************************************************************************)
\* longest array / table a factory or the engine hands over
MaxLen == 2
\* nesting depth of containers below the document's root table
MaxDepth == 1
\* largest line / column the engine reports for a failure
MaxLine == 2

(***************************************************************************)
(* Value model: CTomlPlusPlus.hpp                                          *)
(***************************************************************************)
\* enum class NodeType
NodeType == {"None", "String", "Integer", "Float", "Boolean",
             "Date", "Time", "DateTime", "Array", "Table"}

\* A member the constructor leaves out of its initialiser list: DateValue,
\* TimeValue and DateTimeValue have no default member initialisers, so
\* _dateValue, _timeValue and _dateTimeValue hold indeterminate values
\* until a factory assigns them.
Indeterminate == [indeterminate |-> TRUE]

\* double is modelled by decimal literals; the conversions only copy doubles
FloatZero == "0.0"

\* Node::Node()
Node ==
    [ type          |-> "None",
      stringValue   |-> "",
      intValue      |-> 0,
      floatValue    |-> FloatZero,
      boolValue     |-> FALSE,
      dateValue     |-> Indeterminate,
      timeValue     |-> Indeterminate,
      dateTimeValue |-> Indeterminate,
      arrayValue    |-> <<>>,
      tableKeys     |-> <<>>,
      tableValues   |-> <<>> ]

makeString(value)   == [Node EXCEPT !.type = "String",   !.stringValue = value]
makeInteger(value)  == [Node EXCEPT !.type = "Integer",  !.intValue = value]
makeFloat(value)    == [Node EXCEPT !.type = "Float",    !.floatValue = value]
makeBoolean(value)  == [Node EXCEPT !.type = "Boolean",  !.boolValue = value]
makeDate(value)     == [Node EXCEPT !.type = "Date",     !.dateValue = value]
makeTime(value)     == [Node EXCEPT !.type = "Time",     !.timeValue = value]
makeDateTime(value) == [Node EXCEPT !.type = "DateTime", !.dateTimeValue = value]
makeArray(elements) == [Node EXCEPT !.type = "Array",    !.arrayValue = elements]
makeTable(keys, values) ==
    [Node EXCEPT !.type = "Table", !.tableKeys = keys, !.tableValues = values]

\* The values a read of an indeterminate int32 struct can produce.  The
\* all-zero struct is one of them; so is whatever the storage held before.
StaleInt == {0, 7}
StaleDates == [year : StaleInt, month : StaleInt, day : StaleInt]
StaleTimes == [hour : StaleInt, minute : {0}, second : {0}, nanosecond : StaleInt]
StaleDateTimes ==
    [ date : {[year |-> 0, month |-> 0, day |-> 0], [year |-> 7, month |-> 0, day |-> 7]},
      time : {[hour |-> 0, minute |-> 0, second |-> 0, nanosecond |-> 0]},
      hasOffset : BOOLEAN,
      offsetMinutes : StaleInt ]

\* Reading a member: its value, or any value at all if it was never written.
ReadMember(slot, stale) == IF slot = Indeterminate THEN stale ELSE {slot}

getType(n)     == n.type
getString(n)   == n.stringValue
getInteger(n)  == n.intValue
getFloat(n)    == n.floatValue
getBoolean(n)  == n.boolValue
\* the set of values the call can return
getDate(n)     == ReadMember(n.dateValue, StaleDates)
getTime(n)     == ReadMember(n.timeValue, StaleTimes)
getDateTime(n) == ReadMember(n.dateTimeValue, StaleDateTimes)

\* size_t index: 0-based, never negative
getArraySize(n) == Len(n.arrayValue)
getArrayElementOffByOne(n, index) ==
    IF index + 1 < Len(n.arrayValue) THEN n.arrayValue[index + 1] ELSE Node
getArrayElement(n, index) ==
    IF index < Len(n.arrayValue) THEN n.arrayValue[index + 1] ELSE Node

getTableSize(n) == Len(n.tableKeys)
getTableKey(n, index) ==
    IF index < Len(n.tableKeys) THEN n.tableKeys[index + 1] ELSE ""

\* What an accessor call did: it completed or the process died, it read
\* outside a stored sequence or not, and the value it returned.
Returns(v) == [completed |-> TRUE, oob |-> FALSE, value |-> v]

\* std::nullopt and an engaged std::optional<Node>
nullopt == <<>>
Some(v) == <<v>>

\* _tableValues[i] with i >= _tableValues.size(): operator[] does not check,
\* the read is outside the vector.  The build may fault, or hand back
\* whatever lies there as a Node.
OutOfBoundsRead ==
    {[completed |-> FALSE, oob |-> TRUE, value |-> nullopt]}
    \cup {[completed |-> TRUE, oob |-> TRUE, value |-> Some(g)] :
            g \in {Node, makeInteger(7)}}

\* The loop of getTableValue: the 0-based index of the first key equal to
\* key, or _tableKeys.size() when the loop runs to its end.
FirstMatch(keys, key) ==
    IF \E i \in 1..Len(keys) : keys[i] = key
    THEN (CHOOSE i \in 1..Len(keys) :
            /\ keys[i] = key
            /\ \A j \in 1..(i - 1) : keys[j] # key) - 1
    ELSE Len(keys)

\* the set of outcomes of getTableValue(key)
getTableValueLastMatch(n, key) ==
    LET hits == {i \in 1..Len(n.tableKeys) : n.tableKeys[i] = key}
        i == CHOOSE h \in hits : \A g \in hits : g <= h
    IN  IF hits = {} THEN {Returns(nullopt)}
        ELSE IF i <= Len(n.tableValues) THEN {Returns(Some(n.tableValues[i]))}
        ELSE OutOfBoundsRead
getTableValue(n, key) ==
    LET i == FirstMatch(n.tableKeys, key)
    IN  IF i = Len(n.tableKeys) THEN {Returns(nullopt)}
        ELSE IF i < Len(n.tableValues) THEN {Returns(Some(n.tableValues[i + 1]))}
        ELSE OutOfBoundsRead

(***************************************************************************)
(* Spec: a caller of the value model.  It builds a Node with one of the    *)
(* public factories, arguments of its own choosing, and calls accessors.   *)
(***************************************************************************)
Strings   == {"", "a"}
Ints      == {0, 42, -1}
Floats    == {FloatZero, "1.5", "nan"}
Dates     == {[year |-> 1979, month |-> 5, day |-> 27], [year |-> 0, month |-> 0, day |-> 0]}
Times     == {[hour |-> 7, minute |-> 32, second |-> 0, nanosecond |-> 999999999]}
DateTimes ==
    [ date : {[year |-> 1979, month |-> 5, day |-> 27]},
      time : {[hour |-> 7, minute |-> 32, second |-> 0, nanosecond |-> 0]},
      hasOffset : {TRUE},
      offsetMinutes : {0, -420} ]
    \cup
    [ date : {[year |-> 1979, month |-> 5, day |-> 27]},
      time : {[hour |-> 7, minute |-> 32, second |-> 0, nanosecond |-> 0]},
      hasOffset : {FALSE},
      offsetMinutes : {0} ]
KeySet    == {"a", "b"}
\* keys a caller looks up: the stored ones and one that is never stored
LookupKeys == KeySet \cup {"zz"}
\* the Nodes a caller puts into an array or a table
ChildNodes == {Node, makeInteger(42), makeString("a")}
\* the indices a caller asks for: in range, size and beyond
Indices   == 0..(MaxLen + 1)

SeqsUpTo(S, n) == UNION {[1..k -> S] : k \in 0..n}

NoCall == [name |-> "none", index |-> 0, key |-> ""]
NoRet  == Returns(nullopt)

SpecVarsParse == <<engine, pc, result>>

\* A Node has no mutators: the model follows one Node, built once.
Build(n, m) ==
    /\ made.factory = "Node"
    /\ node' = n
    /\ made' = m
    /\ op' = NoCall
    /\ ret' = NoRet
    /\ UNCHANGED SpecVarsParse

MakeString ==
    \E v \in Strings : Build(makeString(v), [factory |-> "makeString", value |-> v])
MakeInteger ==
    \E v \in Ints : Build(makeInteger(v), [factory |-> "makeInteger", value |-> v])
MakeFloat ==
    \E v \in Floats : Build(makeFloat(v), [factory |-> "makeFloat", value |-> v])
MakeBoolean ==
    \E v \in BOOLEAN : Build(makeBoolean(v), [factory |-> "makeBoolean", value |-> v])
MakeDate ==
    \E v \in Dates : Build(makeDate(v), [factory |-> "makeDate", value |-> v])
MakeTime ==
    \E v \in Times : Build(makeTime(v), [factory |-> "makeTime", value |-> v])
MakeDateTime ==
    \E v \in DateTimes : Build(makeDateTime(v), [factory |-> "makeDateTime", value |-> v])
MakeArray ==
    \E es \in SeqsUpTo(ChildNodes, MaxLen) :
        Build(makeArray(es), [factory |-> "makeArray", elements |-> es])
\* keys and values are two independent arguments: any lengths, any repeats
MakeTable ==
    \E ks \in SeqsUpTo(KeySet, MaxLen), vs \in SeqsUpTo(ChildNodes, MaxLen) :
        Build(makeTable(ks, vs), [factory |-> "makeTable", keys |-> ks, values |-> vs])

Call(name, index, key, outcomes) ==
    /\ op' = [name |-> name, index |-> index, key |-> key]
    /\ ret' \in outcomes
    /\ UNCHANGED <<node, made>>
    /\ UNCHANGED SpecVarsParse

GetType         == Call("getType", 0, "", {Returns(getType(node))})
GetString       == Call("getString", 0, "", {Returns(getString(node))})
GetInteger      == Call("getInteger", 0, "", {Returns(getInteger(node))})
GetFloat        == Call("getFloat", 0, "", {Returns(getFloat(node))})
GetBoolean      == Call("getBoolean", 0, "", {Returns(getBoolean(node))})
GetDate         == Call("getDate", 0, "", {Returns(v) : v \in getDate(node)})
GetTime         == Call("getTime", 0, "", {Returns(v) : v \in getTime(node)})
GetDateTime     == Call("getDateTime", 0, "", {Returns(v) : v \in getDateTime(node)})
GetArraySize    == Call("getArraySize", 0, "", {Returns(getArraySize(node))})
GetArrayElement ==
    \E i \in Indices : Call("getArrayElement", i, "", {Returns(getArrayElement(node, i))})
GetTableSize    == Call("getTableSize", 0, "", {Returns(getTableSize(node))})
GetTableKey     ==
    \E i \in Indices : Call("getTableKey", i, "", {Returns(getTableKey(node, i))})
GetTableValue   ==
    \E k \in LookupKeys : Call("getTableValue", 0, k, getTableValue(node, k))

\* toml::parse has not been asked anything in Spec
IdleEngine == [ok |-> FALSE, err |-> [description |-> "", line |-> 1, column |-> 1]]
ParseResult == [success |-> FALSE, error |-> nullopt, root |-> Node]

Init ==
    /\ node = Node
    /\ made = [factory |-> "Node"]
    /\ op = NoCall
    /\ ret = NoRet
    /\ engine = IdleEngine
    /\ pc = "start"
    /\ result = ParseResult

Next ==
    \/ MakeString \/ MakeInteger \/ MakeFloat \/ MakeBoolean
    \/ MakeDate \/ MakeTime \/ MakeDateTime \/ MakeArray \/ MakeTable
    \/ GetType \/ GetString \/ GetInteger \/ GetFloat \/ GetBoolean
    \/ GetDate \/ GetTime \/ GetDateTime
    \/ GetArraySize \/ GetArrayElement
    \/ GetTableSize \/ GetTableKey \/ GetTableValue

Spec == Init /\ [][Next]_vars

(***************************************************************************)
(* Claims about the value model, checked under Spec.                       *)
(***************************************************************************)
FactoryTag(f) ==
    CASE f = "makeString"   -> "String"
      [] f = "makeInteger"  -> "Integer"
      [] f = "makeFloat"    -> "Float"
      [] f = "makeBoolean"  -> "Boolean"
      [] f = "makeDate"     -> "Date"
      [] f = "makeTime"     -> "Time"
      [] f = "makeDateTime" -> "DateTime"
      [] f = "makeArray"    -> "Array"
      [] f = "makeTable"    -> "Table"

ZeroDate == [year |-> 0, month |-> 0, day |-> 0]
ZeroTime == [hour |-> 0, minute |-> 0, second |-> 0, nanosecond |-> 0]
ZeroDateTime ==
    [date |-> ZeroDate, time |-> ZeroTime, hasOffset |-> FALSE, offsetMinutes |-> 0]

\* what the accessor of a scalar tag is said to return on a factory-built Node
Supplied(f, default) == IF made.factory = f THEN made.value ELSE default

\* C2: on a Node built by a factory, getType returns the factory's tag, the
\* accessor of that tag returns the supplied value, and every other accessor
\* returns its zero / empty default (getDate, getTime and getDateTime: all
\* fields zero and hasOffset false).
C2_TagExclusiveAccessors ==
    (made.factory # "Node" /\ op.name # "none") =>
        /\ ret.completed
        /\ op.name = "getType"      => ret.value = FactoryTag(made.factory)
        /\ op.name = "getString"    => ret.value = Supplied("makeString", "")
        /\ op.name = "getInteger"   => ret.value = Supplied("makeInteger", 0)
        /\ op.name = "getFloat"     => ret.value = Supplied("makeFloat", FloatZero)
        /\ op.name = "getBoolean"   => ret.value = Supplied("makeBoolean", FALSE)
        /\ op.name = "getDate"      => ret.value = Supplied("makeDate", ZeroDate)
        /\ op.name = "getTime"      => ret.value = Supplied("makeTime", ZeroTime)
        /\ op.name = "getDateTime"  => ret.value = Supplied("makeDateTime", ZeroDateTime)
        /\ op.name = "getArraySize" =>
             ret.value = IF made.factory = "makeArray" THEN Len(made.elements) ELSE 0
        /\ op.name = "getTableSize" =>
             ret.value = IF made.factory = "makeTable" THEN Len(made.keys) ELSE 0

\* C3: every accessor call on every factory-built Node, makeTable with keys
\* and values of different lengths included, completes and returns a value
\* without reading outside the stored key or value sequence.
C3_AccessorsTotal ==
    op.name # "none" => (ret.completed /\ ~ret.oob)

\* C4: getArrayElement(i) returns the stored i-th element when
\* i < getArraySize() and otherwise a default Node with tag None;
\* getTableKey(i) returns the stored i-th key when i < getTableSize() and
\* otherwise the empty string; neither fails, whatever the tag and the index.
C4_IndexedAccess ==
    /\ op.name = "getArrayElement" =>
        /\ ret.completed /\ ~ret.oob
        /\ IF op.index < getArraySize(node)
           THEN /\ made.factory = "makeArray"
                /\ op.index < Len(made.elements)
                /\ ret.value = made.elements[op.index + 1]
           ELSE ret.value = Node /\ ret.value.type = "None"
    /\ op.name = "getTableKey" =>
        /\ ret.completed /\ ~ret.oob
        /\ IF op.index < getTableSize(node)
           THEN /\ made.factory = "makeTable"
                /\ op.index < Len(made.keys)
                /\ ret.value = made.keys[op.index + 1]
           ELSE ret.value = ""

\* the last element of a stored array is asked for and returned
C4_Witness ==
    /\ op.name = "getArrayElement"
    /\ made.factory = "makeArray"
    /\ Len(made.elements) = MaxLen
    /\ op.index = MaxLen - 1
    /\ ret.value = made.elements[MaxLen]
    /\ ret.value.type # "None"

Unique(keys) == \A i, j \in 1..Len(keys) : keys[i] = keys[j] => i = j

\* C7: on a Table node whose keys and values have equal length,
\* getTableValue(key) returns absent iff no stored key equals key, and
\* otherwise the value at the smallest index whose key equals key; so with
\* unique keys getTableValue(getTableKey(i)) is the i-th stored value.
C7_TableLookup ==
    (made.factory = "makeTable" /\ Len(made.keys) = Len(made.values)) =>
        /\ op.name = "getTableValue" =>
            /\ ret.completed
            /\ (ret.value = nullopt) <=>
                   (\A i \in 1..Len(made.keys) : made.keys[i] # op.key)
            /\ \A i \in 1..Len(made.keys) :
                   (/\ made.keys[i] = op.key
                    /\ \A j \in 1..(i - 1) : made.keys[j] # op.key)
                   => ret.value = Some(made.values[i])
        /\ Unique(made.keys) =>
            \A i \in 0..(getTableSize(node) - 1) :
                getTableValue(node, getTableKey(node, i))
                    = {Returns(Some(made.values[i + 1]))}

\* a key stored twice with different values is looked up: the first wins
C7_Witness ==
    /\ made.factory = "makeTable"
    /\ Len(made.keys) = Len(made.values)
    /\ Len(made.keys) >= 2
    /\ made.keys[1] = made.keys[2]
    /\ made.values[1] # made.values[2]
    /\ op.name = "getTableValue"
    /\ op.key = made.keys[1]
    /\ ret.value = Some(made.values[1])

(***************************************************************************)
(* Tree converter: CTomlPlusPlus.cpp                                       *)
(*                                                                         *)
(* A native node of the grammar engine is a record with its kind:          *)
(*   [kind |-> "string", as_string |-> v], and likewise for "integer",     *)
(*   "floating_point", "boolean", "date", "time", "date_time"              *)
(*   [kind |-> "array", elems |-> <<e1, ..>>]   ei a node or NullElem      *)
(*   [kind |-> "table", entries |-> <<[key |-> k, value |-> node], ..>>]   *)
(*   [kind |-> "none"]                          any other kind             *)
(***************************************************************************)
is_string(n)         == n.kind = "string"
is_integer(n)        == n.kind = "integer"
is_floating_point(n) == n.kind = "floating_point"
is_boolean(n)        == n.kind = "boolean"
is_date(n)           == n.kind = "date"
is_time(n)           == n.kind = "time"
is_date_time(n)      == n.kind = "date_time"
is_array(n)          == n.kind = "array"
is_table(n)          == n.kind = "table"

\* what toml::array::get(i) hands back when it has no element for i
NullElem == [kind |-> "nullptr"]

\* static_cast<int32_t>(x) of an unsigned x of at most 32 bits (uint8_t month,
\* day, hour, minute, second; uint16_t year; uint32_t nanosecond; int16_t
\* offset minutes): x itself up to INT32_MAX, x - 2^32 above it.
ToInt32(x) == IF x > 2147483647 THEN x - 2147483647 - 2147483647 - 2 ELSE x

\* DateValue{d.year, static_cast<int32_t>(d.month), static_cast<int32_t>(d.day)}
convertDate(d) ==
    [year |-> ToInt32(d.year), month |-> ToInt32(d.month), day |-> ToInt32(d.day)]

convertTime(t) ==
    [ hour       |-> ToInt32(t.hour),
      minute     |-> ToInt32(t.minute),
      second     |-> ToInt32(t.second),
      nanosecond |-> ToInt32(t.nanosecond) ]

\* std::optional<toml::time_offset>: <<>> or <<[minutes |-> m]>>
has_value(o) == Len(o) > 0

convertDateTimeZeroIsAbsent(dt) ==
    LET hasOffset == has_value(dt.offset) /\ dt.offset[1].minutes # 0
    IN  [ date          |-> convertDate(dt.date),
          time          |-> convertTime(dt.time),
          hasOffset     |-> hasOffset,
          offsetMinutes |-> IF hasOffset THEN ToInt32(dt.offset[1].minutes) ELSE 0 ]
convertDateTime(dt) ==
    LET hasOffset == has_value(dt.offset)
    IN  [ date          |-> convertDate(dt.date),
          time          |-> convertTime(dt.time),
          hasOffset     |-> hasOffset,
          offsetMinutes |-> IF hasOffset THEN ToInt32(dt.offset[1].minutes) ELSE 0 ]

RECURSIVE convertNode(_)
RECURSIVE convertArrayFrom(_, _, _)

\* for (auto &[k, v] : table) { keys.push_back(k); values.push_back(convertNode(v)); }
convertTableReversed(table) ==
    LET n == Len(table.entries)
    IN  makeTable([i \in 1..n |-> table.entries[n + 1 - i].key],
                  [i \in 1..n |-> convertNode(table.entries[n + 1 - i].value)])
convertTable(table) ==
    LET n == Len(table.entries)
    IN  makeTable([i \in 1..n |-> table.entries[i].key],
                  [i \in 1..n |-> convertNode(table.entries[i].value)])

\* the loop of convertArray from 1-based position i on, elements collected so far
convertArrayFrom(arr, i, elements) ==
    IF i > Len(arr.elems) THEN elements
    ELSE IF arr.elems[i] # NullElem
         THEN convertArrayFrom(arr, i + 1, Append(elements, convertNode(arr.elems[i])))
         ELSE convertArrayFrom(arr, i + 1, elements)

convertArrayFillsGaps(arr) ==
    makeArray([i \in 1..Len(arr.elems) |->
                 IF arr.elems[i] # NullElem THEN convertNode(arr.elems[i]) ELSE Node])
convertArray(arr) == makeArray(convertArrayFrom(arr, 1, <<>>))

convertNodeTimeAsDate(n) ==
    IF is_string(n) THEN makeString(n.as_string)
    ELSE IF is_integer(n) THEN makeInteger(n.as_integer)
    ELSE IF is_floating_point(n) THEN makeFloat(n.as_floating_point)
    ELSE IF is_boolean(n) THEN makeBoolean(n.as_boolean)
    ELSE IF is_date(n) \/ is_time(n) THEN
        makeDate(IF is_date(n) THEN convertDate(n.as_date) ELSE ZeroDate)
    ELSE IF is_date_time(n) THEN makeDateTime(convertDateTime(n.as_date_time))
    ELSE IF is_array(n) THEN convertArray(n)
    ELSE IF is_table(n) THEN convertTable(n)
    ELSE Node
convertNode(n) ==
    IF is_string(n) THEN makeString(n.as_string)
    ELSE IF is_integer(n) THEN makeInteger(n.as_integer)
    ELSE IF is_floating_point(n) THEN makeFloat(n.as_floating_point)
    ELSE IF is_boolean(n) THEN makeBoolean(n.as_boolean)
    ELSE IF is_date(n) THEN makeDate(convertDate(n.as_date))
    ELSE IF is_time(n) THEN makeTime(convertTime(n.as_time))
    ELSE IF is_date_time(n) THEN makeDateTime(convertDateTime(n.as_date_time))
    ELSE IF is_array(n) THEN convertArray(n)
    ELSE IF is_table(n) THEN convertTable(n)
    ELSE Node

\* parse(input).  eng is what toml::parse(input) does: it returns a table,
\* [ok |-> TRUE, tree |-> t], or throws toml::parse_error,
\* [ok |-> FALSE, err |-> [description, line, column]] with line and column
\* those of err.source().begin.
parseDropsError(eng) ==
    IF eng.ok
    THEN [success |-> TRUE, error |-> nullopt, root |-> convertTable(eng.tree)]
    ELSE [success |-> FALSE, error |-> nullopt, root |-> Node]
parseSwapsPosition(eng) ==
    IF eng.ok
    THEN [success |-> TRUE, error |-> nullopt, root |-> convertTable(eng.tree)]
    ELSE [ success |-> FALSE,
           error   |-> Some([ description |-> eng.err.description,
                              line        |-> eng.err.column,
                              column      |-> eng.err.line ]),
           root    |-> Node ]
parse(eng) ==
    IF eng.ok
    THEN [success |-> TRUE, error |-> nullopt, root |-> convertTable(eng.tree)]
    ELSE [ success |-> FALSE,
           error   |-> Some([ description |-> eng.err.description,
                              line        |-> eng.err.line,
                              column      |-> eng.err.column ]),
           root    |-> Node ]

(***************************************************************************)
(* SpecParse: the grammar engine produces an outcome for the input text    *)
(* and parse is applied to it.                                             *)
(*                                                                         *)
(* The engine is outside this layer; what it produces is the input of the  *)
(* model.  It either fails with a parse_error, or builds a tree bottom-up: *)
(* a leaf, then containers around it, up to MaxDepth deep below the root   *)
(* table, each holding up to MaxLen children: the node built so far and    *)
(* siblings from a small set.  A table iterates its keys in ascending      *)
(* order without repeats, as the ordered map of toml++ does.               *)
(***************************************************************************)
NativeDate == [year |-> 1979, month |-> 5, day |-> 27]
NativeTime == [hour |-> 7, minute |-> 32, second |-> 0, nanosecond |-> 999999999]

NativeLeaves ==
    {[kind |-> "string", as_string |-> v] : v \in Strings}
    \cup {[kind |-> "integer", as_integer |-> v] : v \in Ints}
    \cup {[kind |-> "floating_point", as_floating_point |-> v] : v \in {"1.5", "nan"}}
    \cup {[kind |-> "boolean", as_boolean |-> v] : v \in BOOLEAN}
    \cup {[kind |-> "date", as_date |-> NativeDate]}
    \cup {[kind |-> "time", as_time |-> NativeTime]}
    \cup {[kind |-> "date_time",
           as_date_time |-> [date |-> NativeDate, time |-> NativeTime, offset |-> o]] :
             o \in {<<>>, <<[minutes |-> 0]>>, <<[minutes |-> -420]>>}}
    \cup {[kind |-> "none"]}

NativeArray(elems)   == [kind |-> "array", elems |-> elems]
NativeTable(entries) == [kind |-> "table", entries |-> entries]

\* the keys of the engine's tables, in the order its map iterates them
KeyOrder == <<"a", "b", "c">>

\* strictly ascending index sequences of length k into KeyOrder
AscendingKeys(k) ==
    {ix \in [1..k -> 1..Len(KeyOrder)] : \A i \in 1..(k - 1) : ix[i] < ix[i + 1]}

SiblingLeaf == [kind |-> "integer", as_integer |-> 7]

\* an array of k elements holding n at position p, siblings or gaps elsewhere
ArrayAround(n, k, p, f) == NativeArray([i \in 1..k |-> IF i = p THEN n ELSE f[i]])

\* a table of k entries holding n at position p, the sibling elsewhere
TableAround(n, k, p, ix) ==
    NativeTable([i \in 1..k |-> [key   |-> KeyOrder[ix[i]],
                                 value |-> IF i = p THEN n ELSE SiblingLeaf]])

\* nesting depth of containers in a native node
RECURSIVE Depth(_)
Max(S) == CHOOSE m \in S : \A x \in S : x <= m
Depth(n) ==
    IF is_array(n)
    THEN 1 + Max({0} \cup {Depth(n.elems[i]) : i \in {j \in 1..Len(n.elems) : n.elems[j] # NullElem}})
    ELSE IF is_table(n)
    THEN 1 + Max({0} \cup {Depth(n.entries[i].value) : i \in 1..Len(n.entries)})
    ELSE 0

ParseErrors ==
    [ description : {"Error while parsing key-value pair", "Error while parsing table header"},
      line        : 1..MaxLine,
      column      : 1..MaxLine ]

Built(n)  == [ok |-> TRUE, tree |-> n]
Failed(e) == [ok |-> FALSE, err |-> e]

SpecVarsNode == <<node, made, op, ret>>

InitParse ==
    /\ node = Node
    /\ made = [factory |-> "Node"]
    /\ op = NoCall
    /\ ret = NoRet
    /\ engine \in {Built(n) : n \in NativeLeaves \cup {NativeArray(<<>>), NativeTable(<<>>)}}
                  \cup {Failed(e) : e \in ParseErrors}
    /\ pc = "start"
    /\ result = ParseResult

\* the engine puts the node it has built into an array
EngineArray ==
    /\ pc = "start"
    /\ engine.ok
    /\ Depth(engine.tree) < MaxDepth
    /\ \E k \in 1..MaxLen : \E p \in 1..k : \E f \in [1..k -> {SiblingLeaf, NullElem}] :
          engine' = Built(ArrayAround(engine.tree, k, p, f))
    /\ UNCHANGED <<pc, result>>
    /\ UNCHANGED SpecVarsNode

\* the engine puts the node it has built into a table; the outermost table
\* is the document's root
EngineTable ==
    /\ pc = "start"
    /\ engine.ok
    /\ Depth(engine.tree) < MaxDepth + 1
    /\ \E k \in 1..MaxLen : \E p \in 1..k : \E ix \in AscendingKeys(k) :
          engine' = Built(TableAround(engine.tree, k, p, ix))
    /\ UNCHANGED <<pc, result>>
    /\ UNCHANGED SpecVarsNode

\* parse(input) is called once the engine has its outcome: a parse_error, or
\* a tree whose root is a table
Parse ==
    /\ pc = "start"
    /\ engine.ok => is_table(engine.tree)
    /\ result' = parse(engine)
    /\ pc' = "returned"
    /\ UNCHANGED engine
    /\ UNCHANGED SpecVarsNode

NextParse == EngineArray \/ EngineTable \/ Parse

SpecParse == InitParse /\ [][NextParse]_vars

(***************************************************************************)
(* Claims about parse and the converter, checked under SpecParse.          *)
(***************************************************************************)
Returned == pc = "returned"

\* C1: the ParseResult has exactly one of two shapes: success, no error and
\* a root of tag Table when the engine returns a tree; no success, an error
\* and the default Node (tag None) as root when the engine fails.  Success
\* with an error, and failure without one, are never returned.
C1_ResultShape ==
    Returned =>
        /\ engine.ok =>
             (result.success /\ result.error = nullopt /\ getType(result.root) = "Table")
        /\ ~engine.ok =>
             (/\ ~result.success
              /\ result.error # nullopt
              /\ result.root = Node
              /\ getType(result.root) = "None")
        /\ ~(result.success /\ result.error # nullopt)
        /\ ~(~result.success /\ result.error = nullopt)

C1_Witness ==
    Returned /\ ~engine.ok /\ ~result.success /\ Len(result.error) = 1

\* C5: when the engine fails, parse converts nothing and returns an error
\* whose description, line and column are those the engine reported for the
\* failure (begin line, begin column), with line >= 1 and column >= 1; the
\* failure comes back as data.
C5_ErrorCaptured ==
    (Returned /\ ~engine.ok) =>
        /\ Len(result.error) = 1
        /\ result.error[1].description = engine.err.description
        /\ result.error[1].line = engine.err.line
        /\ result.error[1].column = engine.err.column
        /\ result.error[1].line >= 1
        /\ result.error[1].column >= 1
        /\ result.root = Node

\* a failure whose line and column differ
C5_Witness ==
    /\ Returned /\ ~engine.ok
    /\ engine.err.line # engine.err.column
    /\ Len(result.error) = 1
    /\ result.error[1].line = engine.err.line

Min(a, b) == IF a <= b THEN a ELSE b

\* the indices of an array at which get(i) yields an element, ascending
YieldingIndices(elems) ==
    LET Y == {i \in 1..Len(elems) : elems[i] # NullElem}
    IN  [k \in 1..Cardinality(Y) |->
            CHOOSE i \in Y : Cardinality({j \in Y : j <= i}) = k]

\* Every native node of the tree t, at every depth, paired with the Node at
\* its place in the converted tree c: the i-th value of a table with the i-th
\* stored value, the k-th yielded element of an array with the k-th stored
\* element.
RECURSIVE Corresp(_, _)
Corresp(t, c) ==
    {<<t, c>>}
    \cup (IF is_table(t)
          THEN UNION {Corresp(t.entries[i].value, c.tableValues[i]) :
                        i \in 1..Min(Len(t.entries), Len(c.tableValues))}
          ELSE IF is_array(t)
          THEN LET ys == YieldingIndices(t.elems)
               IN  UNION {Corresp(t.elems[ys[k]], c.arrayValue[k]) :
                            k \in 1..Min(Len(ys), Len(c.arrayValue))}
          ELSE {})

Converted == Corresp(engine.tree, result.root)

C8_DateTimeOffset ==
    (Returned /\ engine.ok) =>
        \A pr \in Converted :
            LET t == pr[1]
                c == pr[2]
            IN  is_date_time(t) =>
                LET dt == t.as_date_time
                IN  /\ getType(c) = "DateTime"
                    /\ \A v \in getDateTime(c) :
                        /\ has_value(dt.offset) =>
                             (v.hasOffset /\ v.offsetMinutes = dt.offset[1].minutes)
                        /\ ~has_value(dt.offset) =>
                             (~v.hasOffset /\ v.offsetMinutes = 0)
                        /\ v.date.year = dt.date.year
                        /\ v.date.month = dt.date.month
                        /\ v.date.day = dt.date.day
                        /\ v.time.hour = dt.time.hour
                        /\ v.time.minute = dt.time.minute
                        /\ v.time.second = dt.time.second
                        /\ v.time.nanosecond = dt.time.nanosecond

\* a date-time with an explicit offset of 0 minutes has been converted
C8_Witness ==
    /\ Returned /\ engine.ok
    /\ \E pr \in Converted :
        /\ is_date_time(pr[1])
        /\ pr[1].as_date_time.offset = <<[minutes |-> 0]>>
        /\ pr[2].dateTimeValue.hasOffset
        /\ pr[2].dateTimeValue.offsetMinutes = 0

\* C9: a native array converts to an Array node whose elements are the
\* conversions of the native elements at the indices that yield an element,
\* in increasing index order; the other indices are skipped, so
\* getArraySize() is the number of yielding indices (n when there is no gap).
C9_ArrayFaithful ==
    (Returned /\ engine.ok) =>
        \A pr \in Converted :
            LET t == pr[1]
                c == pr[2]
            IN  is_array(t) =>
                LET ys == YieldingIndices(t.elems)
                IN  /\ getType(c) = "Array"
                    /\ getArraySize(c) = Len(ys)
                    /\ \A k \in 1..Len(ys) :
                           getArrayElement(c, k - 1) = convertNode(t.elems[ys[k]])
                    /\ (\A i \in 1..Len(t.elems) : t.elems[i] # NullElem)
                           => getArraySize(c) = Len(t.elems)

\* an array whose first index yields nothing and whose second does
C9_Witness ==
    /\ Returned /\ engine.ok
    /\ \E pr \in Converted :
        /\ is_array(pr[1])
        /\ Len(pr[1].elems) = 2
        /\ pr[1].elems[1] = NullElem
        /\ pr[1].elems[2] # NullElem
        /\ getArraySize(pr[2]) = 1

KindTag(kind) ==
    CASE kind = "string"         -> "String"
      [] kind = "integer"        -> "Integer"
      [] kind = "floating_point" -> "Float"
      [] kind = "boolean"        -> "Boolean"
      [] kind = "date"           -> "Date"
      [] kind = "time"           -> "Time"
      [] kind = "date_time"      -> "DateTime"
      [] kind = "array"          -> "Array"
      [] kind = "table"          -> "Table"
      [] OTHER                   -> "None"

\* C10: conversion is total and tag-faithful: it ends for every finite
\* native tree, every native node at every depth converts to a Node with the
\* tag of its kind, and a node of any other kind to the default Node (None).
C10_TagFaithful ==
    engine.ok =>
        /\ Returned => result.root = convertNode(engine.tree)
        /\ \A pr \in Corresp(engine.tree, convertNode(engine.tree)) :
            /\ getType(pr[2]) = KindTag(pr[1].kind)
            /\ KindTag(pr[1].kind) = "None" => pr[2] = Node

\* a time nested in a container has been converted
C10_Witness ==
    /\ Returned /\ engine.ok
    /\ \E pr \in Corresp(engine.tree, convertNode(engine.tree)) :
        /\ pr[1] # engine.tree
        /\ is_time(pr[1])
        /\ getType(pr[2]) = "Time"

====
